---- MODULE Spec2Model ----
(***************************************************************************)
(* Model of mysqldump.go: Dump, getAllTables, writeTableStruct and         *)
(* writeTableData, with the row-to-SQL-literal renderer of writeTableData. *)
(* Text is modelled as sequences of one-character strings (so that         *)
(* strings.Replace and the fmt verbs are computed, not assumed); a text    *)
(* handed to buf.WriteString is a sequence of the string pieces the code   *)
(* concatenates.                                                           *)
(***************************************************************************)
EXTENDS Integers, Sequences, FiniteSets, TLC

VARIABLES opts, db, o, pc, err, reported, tables, ti, columnTypes, values,
          ri, buf, sink, logged, queries, readErr

vars == <<opts, db, o, pc, err, reported, tables, ti, columnTypes, values,
          ri, buf, sink, logged, queries, readErr>>

(* ------------------------------ bounds --------------------------------- *)

\* Largest number of rows a table of the engine holds.
MaxRows == 2

\* Capacity of the bufio.Writer, counted in WriteString payloads.
BufCap == 3

(* ------------------------------- text ---------------------------------- *)

Digits == <<"0", "1", "2", "3", "4", "5", "6", "7", "8", "9">>

RECURSIVE Join(_)
\* string(cs): the characters of cs as one string.
Join(cs) == IF cs = <<>> THEN "" ELSE cs[1] \o Join(Tail(cs))

RECURSIVE Pow10(_)
Pow10(k) == IF k = 0 THEN 1 ELSE 10 * Pow10(k - 1)

RECURSIVE NatChars(_)
\* Base-10 digits of a natural number, no separators.
NatChars(n) == IF n < 10 THEN <<Digits[n + 1]>>
               ELSE NatChars(n \div 10) \o <<Digits[(n % 10) + 1]>>

\* fmt's %d of a native integer.
IntChars(n) == IF n < 0 THEN <<"-">> \o NatChars(-n) ELSE NatChars(n)

RECURSIVE PadChars(_, _)
\* n in base 10, left-padded with zeros to width w.
PadChars(n, w) == IF w = 0 THEN <<>>
                  ELSE PadChars(n \div 10, w - 1) \o <<Digits[(n % 10) + 1]>>

RECURSIVE ReplaceAll(_, _, _)
\* strings.Replace(s, old, new, -1) for a non-empty old.
ReplaceAll(s, old, new) ==
    IF Len(s) < Len(old) THEN s
    ELSE IF SubSeq(s, 1, Len(old)) = old
         THEN new \o ReplaceAll(SubSeq(s, Len(old) + 1, Len(s)), old, new)
         ELSE <<s[1]>> \o ReplaceAll(Tail(s), old, new)

\* ASCII code of the characters the modelled engine stores.
AsciiOf(c) ==
    CASE c = " " -> 32 [] c = "'" -> 39 [] c = "-" -> 45 [] c = "." -> 46
      [] c = "0" -> 48 [] c = "1" -> 49 [] c = "2" -> 50 [] c = "3" -> 51
      [] c = "4" -> 52 [] c = "5" -> 53 [] c = "6" -> 54 [] c = "7" -> 55
      [] c = "8" -> 56 [] c = "9" -> 57 [] c = ":" -> 58
      [] c = "B" -> 66 [] c = "O" -> 79 [] c = "P" -> 80
      [] c = "a" -> 97 [] c = "n" -> 110 [] c = "x" -> 120

HexDigits == <<"0", "1", "2", "3", "4", "5", "6", "7", "8", "9",
               "A", "B", "C", "D", "E", "F">>

RECURSIVE HexNat(_)
HexNat(n) == IF n < 16 THEN <<HexDigits[n + 1]>>
             ELSE HexNat(n \div 16) \o <<HexDigits[(n % 16) + 1]>>

RECURSIVE HexBytes(_)
\* fmt's %X of a byte sequence: two uppercase hex digits per byte.
HexBytes(cs) ==
    IF cs = <<>> THEN <<>>
    ELSE <<HexDigits[(AsciiOf(cs[1]) \div 16) + 1],
           HexDigits[(AsciiOf(cs[1]) % 16) + 1]>> \o HexBytes(Tail(cs))

(* --------------------------- driver values ----------------------------- *)

\* A cell as database/sql hands it over in an interface{}: go is its
\* dynamic type; n/sc hold a number n / 10^sc, cs the bytes of a []byte or
\* string, tm a time.Time as <<year, month, day, hour, minute, second>>,
\* b a bool.
Cell(go, n, sc, cs, tm, b) ==
    [go |-> go, n |-> n, sc |-> sc, cs |-> cs, tm |-> tm, b |-> b]

Nil == Cell("nil", 0, 0, <<>>, <<>>, FALSE)
Int64(n) == Cell("int64", n, 0, <<>>, <<>>, FALSE)
Float64(n, sc) == Cell("float64", n, sc, <<>>, <<>>, FALSE)
Bytes(cs) == Cell("[]byte", 0, 0, cs, <<>>, FALSE)
GoString(cs) == Cell("string", 0, 0, cs, <<>>, FALSE)
Time(tm) == Cell("time.Time", 0, 0, <<>>, tm, FALSE)
Bool(b) == Cell("bool", 0, 0, <<>>, <<>>, b)

Abs(n) == IF n < 0 THEN -n ELSE n

\* The text the engine sends for the decimal number n / 10^sc (text
\* protocol): the digits, with a fraction only when there is one.
EngineDecChars(n, sc) ==
    (IF n < 0 THEN <<"-">> ELSE <<>>)
    \o NatChars(Abs(n) \div Pow10(sc))
    \o (IF sc = 0 THEN <<>>
        ELSE <<".">> \o PadChars(Abs(n) % Pow10(sc), sc))

(* ------------------------------ fmt verbs ------------------------------ *)

\* Digits after the decimal point of fmt's %f.
FloatPrec == 6

\* fmt's %f of the float64 n / 10^sc (sc <= FloatPrec): fixed notation with
\* FloatPrec digits after the point.
FmtFloatChars(n, sc) ==
    (IF n < 0 THEN <<"-">> ELSE <<>>)
    \o NatChars(Abs(n) \div Pow10(sc))
    \o <<".">>
    \o PadChars((Abs(n) % Pow10(sc)) * Pow10(FloatPrec - sc), FloatPrec)

\* t.Format("2006-01-02")
FormatDate(tm) ==
    PadChars(tm[1], 4) \o <<"-">> \o PadChars(tm[2], 2) \o <<"-">>
    \o PadChars(tm[3], 2)

\* t.Format("2006-01-02 15:04:05")
FormatDateTime(tm) ==
    FormatDate(tm) \o <<" ">> \o PadChars(tm[4], 2) \o <<":">>
    \o PadChars(tm[5], 2) \o <<":">> \o PadChars(tm[6], 2)

\* fmt's %v of a value, as it appears inside a bad-verb report.
GoValueChars(col) ==
    CASE col.go = "int64" -> IntChars(col.n)
      [] col.go = "float64" -> EngineDecChars(col.n, col.sc)
      [] col.go = "bool" -> IF col.b THEN <<"t", "r", "u", "e">>
                            ELSE <<"f", "a", "l", "s", "e">>
      [] col.go = "string" -> col.cs

\* fmt's report of a verb that does not fit the operand: %!verb(type=value).
BadVerb(verb, col) ==
    "%!" \o verb \o "(" \o col.go \o "=" \o Join(GoValueChars(col)) \o ")"

\* fmt.Sprintf("%d", col)
SprintfD(col) ==
    IF col.go = "int64" THEN Join(IntChars(col.n)) ELSE BadVerb("d", col)

\* fmt.Sprintf("%f", col)
SprintfF(col) ==
    IF col.go = "float64" THEN Join(FmtFloatChars(col.n, col.sc))
    ELSE BadVerb("f", col)

\* fmt.Sprintf("%s", col), as characters (the Text case goes on to escape).
SprintfSChars(col) ==
    CASE col.go \in {"[]byte", "string"} -> col.cs
      [] col.go = "time.Time" ->
            FormatDateTime(col.tm) \o <<" ", "+", "0", "0", "0", "0", " ", "U", "T", "C">>
      [] col.go \in {"int64", "float64", "bool"} ->
            <<"%", "!", "s", "(">> \o <<col.go>> \o <<"=">>
            \o GoValueChars(col) \o <<")">>

\* fmt.Sprintf("%X", col)
SprintfX(col) ==
    CASE col.go \in {"[]byte", "string"} -> Join(HexBytes(col.cs))
      [] col.go = "int64" ->
            (IF col.n < 0 THEN "-" ELSE "") \o Join(HexNat(Abs(col.n)))
      [] col.go = "bool" -> BadVerb("X", col)

(* --------------------------- type classifier --------------------------- *)

UNSIGNED == <<"U", "N", "S", "I", "G", "N", "E", "D">>

\* The two strings.Replace calls on the reported type name.
NormalizeType(Type) ==
    Join(ReplaceAll(ReplaceAll(Type, UNSIGNED, <<>>), <<" ">>, <<>>))

IntegerTypes == {"TINYINT", "SMALLINT", "MEDIUMINT", "INT", "INTEGER", "BIGINT"}
FloatTypes == {"FLOAT", "DOUBLE"}
DecimalTypes == {"DECIMAL", "DEC"}
TextTypes == {"CHAR", "VARCHAR", "TINYTEXT", "TEXT", "MEDIUMTEXT", "LONGTEXT"}
BinaryTypes == {"BIT", "BINARY", "VARBINARY", "TINYBLOB", "BLOB", "MEDIUMBLOB",
                "LONGBLOB"}
EnumTypes == {"ENUM", "SET"}
BoolTypes == {"BOOL", "BOOLEAN"}

\* The names the switch of writeTableData has a case for.
KnownTypes ==
    IntegerTypes \cup FloatTypes \cup DecimalTypes
    \cup {"DATE", "DATETIME", "TIMESTAMP", "TIME", "YEAR"}
    \cup TextTypes \cup BinaryTypes \cup EnumTypes \cup BoolTypes \cup {"JSON"}

(* ---------------------------- literal renderer ------------------------- *)

Ok(lit) == [st |-> "ok", lit |-> lit]
\* return err after a failed type assertion: err is the function's err
\* variable, which is nil whenever the row loop runs.
ConvFail(Type) == [st |-> "conv", lit |-> Type]
Unsupported(Type) == [st |-> "unsupported", lit |-> Type]
\* col.(bool) without the ok form panics on any other dynamic type.
Panic(Type) == [st |-> "panic", lit |-> Type]

Quote(s) == "'" \o s \o "'"

\* Mutant of RenderSwitch: a type without a case is rendered like text.
RenderSwitchDefaultText(Type, col) ==
    CASE Type \in IntegerTypes ->
            IF col.go = "[]byte" THEN Ok(Join(col.cs)) ELSE Ok(SprintfD(col))
      [] Type \in FloatTypes ->
            IF col.go = "[]byte" THEN Ok(Join(col.cs)) ELSE Ok(SprintfF(col))
      [] Type \in DecimalTypes -> Ok(Join(SprintfSChars(col)))
      [] Type = "DATE" ->
            IF col.go = "time.Time" THEN Ok(Quote(Join(FormatDate(col.tm))))
            ELSE ConvFail(Type)
      [] Type \in {"DATETIME", "TIMESTAMP"} ->
            IF col.go = "time.Time" THEN Ok(Quote(Join(FormatDateTime(col.tm))))
            ELSE ConvFail(Type)
      [] Type = "TIME" ->
            IF col.go = "[]byte" THEN Ok(Quote(Join(col.cs))) ELSE ConvFail(Type)
      [] Type = "YEAR" ->
            IF col.go = "[]byte" THEN Ok(Join(col.cs)) ELSE ConvFail(Type)
      [] Type \in TextTypes ->
            Ok(Quote(Join(ReplaceAll(SprintfSChars(col), <<"'">>, <<"'", "'">>))))
      [] Type \in BinaryTypes -> Ok("0x" \o SprintfX(col))
      [] Type \in EnumTypes -> Ok(Quote(Join(SprintfSChars(col))))
      [] Type \in BoolTypes ->
            IF col.go = "bool" THEN Ok(IF col.b THEN "true" ELSE "false")
            ELSE Panic(Type)
      [] Type = "JSON" -> Ok(Quote(Join(SprintfSChars(col))))
      [] OTHER -> Ok(Quote(Join(SprintfSChars(col))))

\* One pass of the column loop's body for a non-nil col: the switch on the
\* normalized type name.
RenderSwitch(Type, col) ==
    CASE Type \in IntegerTypes ->
            IF col.go = "[]byte" THEN Ok(Join(col.cs)) ELSE Ok(SprintfD(col))
      [] Type \in FloatTypes ->
            IF col.go = "[]byte" THEN Ok(Join(col.cs)) ELSE Ok(SprintfF(col))
      [] Type \in DecimalTypes -> Ok(Join(SprintfSChars(col)))
      [] Type = "DATE" ->
            IF col.go = "time.Time" THEN Ok(Quote(Join(FormatDate(col.tm))))
            ELSE ConvFail(Type)
      [] Type \in {"DATETIME", "TIMESTAMP"} ->
            IF col.go = "time.Time" THEN Ok(Quote(Join(FormatDateTime(col.tm))))
            ELSE ConvFail(Type)
      [] Type = "TIME" ->
            IF col.go = "[]byte" THEN Ok(Quote(Join(col.cs))) ELSE ConvFail(Type)
      [] Type = "YEAR" ->
            IF col.go = "[]byte" THEN Ok(Join(col.cs)) ELSE ConvFail(Type)
      [] Type \in TextTypes ->
            Ok(Quote(Join(ReplaceAll(SprintfSChars(col), <<"'">>, <<"'", "'">>))))
      [] Type \in BinaryTypes -> Ok("0x" \o SprintfX(col))
      [] Type \in EnumTypes -> Ok(Quote(Join(SprintfSChars(col))))
      [] Type \in BoolTypes ->
            IF col.go = "bool" THEN Ok(IF col.b THEN "true" ELSE "false")
            ELSE Panic(Type)
      [] Type = "JSON" -> Ok(Quote(Join(SprintfSChars(col))))
      [] OTHER -> Unsupported(Type)

\* The body of "for i, col := range row" for one column: NULL for a nil
\* col before the type name is looked at, else the switch.
RenderCell(colType, col) ==
    IF col.go = "nil" THEN Ok("NULL")
    ELSE RenderSwitch(NormalizeType(colType), col)

\* The grave accent U+0060 that quotes a table name: the character cannot
\* be written inside a TLA+ string, so this spelling stands for it.
Backtick == "{U+0060}"

\* ssql's first assignment(s).
InsertPrefix(table, ignoreInsert) ==
    IF ignoreInsert
    THEN "INSERT IGNORE INTO " \o Backtick \o table \o Backtick \o " VALUES ("
    ELSE "INSERT INTO " \o Backtick \o table \o Backtick \o " VALUES ("

RECURSIVE RenderColsTrailingComma(_, _, _, _)
\* Mutant of RenderCols: the comma is appended after the last column too.
RenderColsTrailingComma(types, row, i, ssql) ==
    IF i > Len(row) THEN [st |-> "ok", ssql |-> ssql, lit |-> ""]
    ELSE LET r == RenderCell(types[i], row[i])
         IN IF r.st # "ok" THEN [st |-> r.st, ssql |-> <<>>, lit |-> r.lit]
            ELSE RenderColsTrailingComma(types, row, i + 1,
                                         ssql \o <<r.lit>> \o <<",">>)

RECURSIVE RenderCols(_, _, _, _)
\* The column loop from column i on, ssql being the pieces appended so far:
\* the finished pieces, or the failure that left the loop.
RenderCols(types, row, i, ssql) ==
    IF i > Len(row) THEN [st |-> "ok", ssql |-> ssql, lit |-> ""]
    ELSE LET r == RenderCell(types[i], row[i])
         IN IF r.st # "ok" THEN [st |-> r.st, ssql |-> <<>>, lit |-> r.lit]
            ELSE RenderCols(types, row, i + 1,
                            ssql \o <<r.lit>>
                            \o (IF i < Len(row) THEN <<",">> ELSE <<>>))

\* One pass of "for _, row := range values" up to the WriteString: the
\* statement as the pieces ssql is built from, or the failure.
RowSQL(table, types, row, ignoreInsert) ==
    LET r == RenderCols(types, row, 1, <<InsertPrefix(table, ignoreInsert)>>)
    IN IF r.st = "ok" THEN [r EXCEPT !.ssql = r.ssql \o <<");\n">>] ELSE r

(* ------------------------- the engine's contents ----------------------- *)

\* Type names as ColumnType.DatabaseTypeName() reports them.
T_UNSIGNED_INT == UNSIGNED \o <<" ", "I", "N", "T">>
T_VARCHAR == <<"V", "A", "R", "C", "H", "A", "R">>
T_DATE == <<"D", "A", "T", "E">>
T_DATETIME == <<"D", "A", "T", "E", "T", "I", "M", "E">>
T_TIMESTAMP == <<"T", "I", "M", "E", "S", "T", "A", "M", "P">>
T_TIME == <<"T", "I", "M", "E">>
T_YEAR == <<"Y", "E", "A", "R">>
T_DOUBLE == <<"D", "O", "U", "B", "L", "E">>
T_DECIMAL == <<"D", "E", "C", "I", "M", "A", "L">>
T_BLOB == <<"B", "L", "O", "B">>
T_ENUM == <<"E", "N", "U", "M">>
T_JSON == <<"J", "S", "O", "N">>
T_BOOL == <<"B", "O", "O", "L">>
T_GEOMETRY == <<"G", "E", "O", "M", "E", "T", "R", "Y">>

Column(type, cells) == [type |-> type, cells |-> cells]

ANoon == <<2024, 1, 2, 12, 30, 0>>
TimeText == <<"1", "2", ":", "3", "0", ":", "0", "0">>

\* Columns of the modelled engine, each with the values the driver may hand
\* over for it: NULL, the native Go value, or the raw bytes of the text
\* protocol.
ColId == Column(T_UNSIGNED_INT, {Nil, Int64(7), Bytes(IntChars(42))})
ColName == Column(T_VARCHAR, {Nil, Bytes(<<"O", "'", "B">>)})
ColDate == Column(T_DATE, {Nil, Time(ANoon), Bytes(FormatDate(ANoon))})
ColGeom == Column(T_GEOMETRY, {Nil, Bytes(<<"P">>)})
ColDouble == Column(T_DOUBLE, {Float64(15, 1), Bytes(EngineDecChars(15, 1)),
                               Float64(-2, 0)})
ColTime == Column(T_TIME, {Bytes(TimeText), GoString(TimeText)})
ColYear == Column(T_YEAR, {Bytes(IntChars(2024)), Int64(2024)})
ColBool == Column(T_BOOL, {Bool(TRUE), Int64(1)})
ColStamp == Column(T_TIMESTAMP, {Nil, Time(ANoon)})

RECURSIVE RowsOf(_)
\* Every row a table with these columns can hold.
RowsOf(cols) ==
    IF cols = <<>> THEN {<<>>}
    ELSE {<<c>> \o r : c \in cols[1].cells, r \in RowsOf(Tail(cols))}

TypesOf(cols) == [i \in 1..Len(cols) |-> cols[i].type]

\* Every content of a table with these columns, of at most MaxRows rows.
TablesOf(cols) ==
    {[types |-> TypesOf(cols), rows |-> rows] :
        rows \in UNION {[1..k -> RowsOf(cols)] : k \in 0..MaxRows}}

\* t(id INT UNSIGNED, name VARCHAR) with the row (7, "O'B").
PlainTable ==
    [types |-> <<T_UNSIGNED_INT, T_VARCHAR>>,
     rows |-> <<<<Int64(7), Bytes(<<"O", "'", "B">>)>>>>]

\* A table with one row over the remaining categories.
WideTable ==
    [types |-> <<T_DECIMAL, T_BLOB, T_ENUM, T_JSON, T_DATETIME, T_YEAR, T_BOOL>>,
     rows |-> <<<<Bytes(<<"1", ".", "5", "0">>), Bytes(<<"a", "x">>),
                  Bytes(<<"a">>), Bytes(<<"n">>), Time(ANoon),
                  Bytes(IntChars(2024)), Bool(FALSE)>>>>]

EmptyTable == [types |-> <<T_UNSIGNED_INT>>, rows |-> <<>>]

TableNames == {"t1", "t2", "t3"}

DB(names, data) == [tables |-> names, data |-> data]

\* The database the option combinations are run against: SHOW TABLES
\* reports its tables in an order that is not the sorted one.
PlainDB ==
    DB(<<"t2", "t3", "t1">>,
       [t \in TableNames |-> CASE t = "t1" -> WideTable
                               [] t = "t2" -> PlainTable
                               [] t = "t3" -> EmptyTable])

RichSchemas ==
    {<<ColId, ColName>>, <<ColDate, ColGeom>>, <<ColDouble, ColTime>>,
     <<ColGeom, ColYear>>, <<ColBool, ColStamp>>}

\* Databases of two tables, one of them with every content of a schema, as
\* the first or as the second table reported.
RichDBs ==
    {DB(<<"t2", "t1">>,
        [t \in TableNames |-> CASE t = rich -> content
                                [] t # rich -> PlainTable]) :
        rich \in {"t1", "t2"},
        content \in UNION {TablesOf(cols) : cols \in RichSchemas}}

(* ------------------------------- options ------------------------------- *)

\* The zero value of dumpOption (writer is the variable sink).
ZeroOption ==
    [isData |-> FALSE, tables |-> <<>>, ignoreTables |-> <<>>,
     isAllTable |-> FALSE, isDropTable |-> FALSE, isIgnoreInsert |-> FALSE]

WithDropTable(option) == [option EXCEPT !.isDropTable = TRUE]
WithData(option) == [option EXCEPT !.isData = TRUE]
WithIgnoreInsertTable(option) == [option EXCEPT !.isIgnoreInsert = TRUE]
WithIgnoreTables(ts, option) == [option EXCEPT !.ignoreTables = ts]
WithTables(ts, option) == [option EXCEPT !.tables = ts]
WithAllTable(option) == [option EXCEPT !.isAllTable = TRUE]

\* A DumpOption value: the function's name and its argument.
Opt(f, arg) == [f |-> f, arg |-> arg]

\* opt(&o)
ApplyOpt(opt, option) ==
    CASE opt.f = "WithDropTable" -> WithDropTable(option)
      [] opt.f = "WithData" -> WithData(option)
      [] opt.f = "WithIgnoreInsertTable" -> WithIgnoreInsertTable(option)
      [] opt.f = "WithIgnoreTables" -> WithIgnoreTables(opt.arg, option)
      [] opt.f = "WithTables" -> WithTables(opt.arg, option)
      [] opt.f = "WithAllTable" -> WithAllTable(option)

RECURSIVE ApplyOpts(_, _)
\* for _, opt := range opts { opt(&o) }
ApplyOpts(os, option) ==
    IF os = <<>> THEN option
    ELSE ApplyOpts(Tail(os), ApplyOpt(os[1], option))

\* Dump's option handling: the options applied to the zero value, then the
\* default of isAllTable.
ResolveOption(os) ==
    LET option == ApplyOpts(os, ZeroOption)
    IN IF Len(option.tables) = 0 THEN [option EXCEPT !.isAllTable = TRUE]
       ELSE option

Flag(f, on) == IF on THEN <<Opt(f, <<>>)>> ELSE <<>>

InclusionLists == {<<>>, <<"t1">>, <<"t1", "t2">>, <<"zz">>}
ExclusionLists == {<<>>, <<"t1">>, <<"t2", "zz">>}

\* Option lists a caller passes: every combination of the flags with the
\* table lists.
AllOpts ==
    {Flag("WithDropTable", d) \o Flag("WithData", dt)
     \o Flag("WithIgnoreInsertTable", ii) \o Flag("WithAllTable", all)
     \o (IF inc = <<>> THEN <<>> ELSE <<Opt("WithTables", inc)>>)
     \o (IF exc = <<>> THEN <<>> ELSE <<Opt("WithIgnoreTables", exc)>>) :
        d \in BOOLEAN, dt \in BOOLEAN, ii \in BOOLEAN, all \in BOOLEAN,
        inc \in InclusionLists, exc \in ExclusionLists}

\* Option lists for the data dumps: data rows requested, every table.
DataOpts ==
    {<<Opt("WithData", <<>>)>> \o Flag("WithIgnoreInsertTable", ii) :
        ii \in BOOLEAN}

(* ------------------------------ bufio.Writer --------------------------- *)

\* One WriteString payload: its pieces s, tagged with the kind of text and
\* with the position pos in the working list of the table whose iteration
\* wrote it (0 outside the table loop).
W(k, pos, s) == [k |-> k, pos |-> pos, s |-> s]

\* buf.WriteString(w): the buffer is flushed to the writer when w does not
\* fit any more.
WriteString(b, w) ==
    IF Len(b.buf) >= BufCap
    THEN [buf |-> <<w>>, sink |-> b.sink \o b.buf]
    ELSE [buf |-> Append(b.buf, w), sink |-> b.sink]

RECURSIVE WriteAll(_, _)
WriteAll(b, ws) ==
    IF ws = <<>> THEN b ELSE WriteAll(WriteString(b, ws[1]), Tail(ws))

\* buf.Flush()
Flush(b) == [buf |-> <<>>, sink |-> b.sink \o b.buf]

Buffered == [buf |-> buf, sink |-> sink]

\* Everything handed to WriteString so far, in write order.
Stream == sink \o buf

Rule == "-- ----------------------------\n"

(* --------------------------------- Dump -------------------------------- *)

ErrOpen == "open error"
ErrDSN == "dsn error"
ErrQuery == "query error"
ErrScan == "scan error"
ErrUnsupported(Type) == "unsupported type: " \o Type

\* log.Printf("[error] %v \n", err)
LogError(e) == "[error] " \o e

Range(f) == {f[i] : i \in DOMAIN f}

\* The header Dump writes first.
Header ==
    <<W("banner", 0, <<Rule>>), W("banner", 0, <<"-- MySQL Database Dump\n">>),
      W("banner", 0, <<"-- Start Time: ", "<start>", "\n">>),
      W("banner", 0, <<Rule>>), W("banner", 0, <<"\n\n">>)>>

\* The lines Dump writes after the last table.
Trailer ==
    <<W("trailer", 0, <<Rule>>), W("trailer", 0, <<"-- Dumped by mysqldump\n">>),
      W("trailer", 0, <<"-- Cost Time: ", "<cost>", "\n">>),
      W("trailer", 0, <<Rule>>)>>

\* Dump up to the connection: the options, the defaults and the header.
DumpStart ==
    /\ pc = "start"
    /\ o' = ResolveOption(opts)
    /\ logged' = Append(logged, "[info] [dump] start")
    /\ LET b == WriteAll(Buffered, Header)
       IN buf' = b.buf /\ sink' = b.sink
    /\ pc' = "connect"
    /\ UNCHANGED <<opts, db, err, reported, tables, ti, columnTypes, values,
                   ri, queries, readErr>>

\* return err from Dump: the deferred calls are still to run.
Return(e) ==
    /\ err' = e
    /\ pc' = "defer"

\* sql.Open, GetDBNameFromDSN and the USE statement, each of which may fail.
Connect ==
    /\ pc = "connect"
    /\ \E outcome \in {"ok", ErrOpen, ErrDSN, ErrQuery} :
          /\ queries' = IF outcome \in {"ok", ErrQuery}
                        THEN Append(queries, [q |-> "USE", t |-> ""])
                        ELSE queries
          /\ IF outcome = "ok"
             THEN /\ pc' = "tables"
                  /\ UNCHANGED <<err, logged>>
             ELSE /\ logged' = Append(logged, LogError(outcome))
                  /\ Return(outcome)
    /\ UNCHANGED <<opts, db, o, reported, tables, ti, columnTypes, values, ri,
                   buf, sink, readErr>>

\* What getAllTables can return: a failed query or scan, or the names read
\* until rows.Next() returned false, which it does at the end of the result
\* and also on an error (rows.Err() is not looked at).
GetAllTables(d) ==
    {[tables |-> <<>>, err |-> ErrQuery], [tables |-> <<>>, err |-> ErrScan]}
    \cup {[tables |-> SubSeq(d.tables, 1, n), err |-> "nil"] :
             n \in 0..Len(d.tables)}

\* Mutant of ExcludeTables: the exclusion list is not applied.
ExcludeTablesKeepsAll(tmp, ignoreTables) == tmp

RECURSIVE ExcludeTables(_, _)
\* The filter loop of Dump: the elements of tmp that are not in
\* ignoreTables, in tmp's order.
ExcludeTables(tmp, ignoreTables) ==
    IF tmp = <<>> THEN <<>>
    ELSE (IF tmp[1] \in Range(ignoreTables) THEN <<>> ELSE <<tmp[1]>>)
         \o ExcludeTables(Tail(tmp), ignoreTables)

\* Mutant of WorkingTables: a non-empty inclusion list wins over the
\* dump-all flag.
WorkingTablesInclusionFirst(option, tmp) ==
    IF Len(option.tables) > 0 THEN option.tables
    ELSE IF Len(option.ignoreTables) > 0
         THEN ExcludeTables(tmp, option.ignoreTables)
         ELSE tmp

RECURSIVE Reverse(_)
Reverse(q) == IF q = <<>> THEN <<>> ELSE Reverse(Tail(q)) \o <<q[1]>>

\* Mutant of WorkingTables: the dump-all list is built back to front.
WorkingTablesReversed(option, tmp) ==
    IF option.isAllTable
    THEN IF Len(option.ignoreTables) > 0
         THEN Reverse(ExcludeTables(tmp, option.ignoreTables))
         ELSE Reverse(tmp)
    ELSE option.tables

\* The working list of Dump, tmp being what getAllTables returned.
WorkingTables(option, tmp) ==
    IF option.isAllTable
    THEN IF Len(option.ignoreTables) > 0
         THEN ExcludeTables(tmp, option.ignoreTables)
         ELSE tmp
    ELSE option.tables

\* Step 2 of Dump: the working list.
ResolveTables ==
    /\ pc = "tables"
    /\ IF o.isAllTable
       THEN \E r \in GetAllTables(db) :
               /\ queries' = Append(queries, [q |-> "SHOW TABLES", t |-> ""])
               /\ IF r.err # "nil"
                  THEN /\ logged' = Append(logged, LogError(r.err))
                       /\ Return(r.err)
                       /\ UNCHANGED <<reported, tables, ti>>
                  ELSE /\ reported' = r.tables
                       /\ tables' = WorkingTables(o, r.tables)
                       /\ ti' = 1
                       /\ pc' = "table"
                       /\ UNCHANGED <<err, logged>>
       ELSE /\ tables' = WorkingTables(o, <<>>)
            /\ ti' = 1
            /\ pc' = "table"
            /\ UNCHANGED <<err, logged, reported, queries>>
    /\ UNCHANGED <<opts, db, o, columnTypes, values, ri, buf, sink, readErr>>

\* The statement SHOW CREATE TABLE returns, as the words strings.Replace
\* looks through; a column comment repeats the words CREATE TABLE.
ShowCreateTable(table) ==
    <<"CREATE TABLE", " " \o Backtick \o table \o Backtick \o " (c INT COMMENT '",
      "CREATE TABLE", "')">>

RECURSIVE ReplaceFirst(_, _, _)
\* strings.Replace(s, old, new, 1)
ReplaceFirst(s, old, new) ==
    IF s = <<>> THEN <<>>
    ELSE IF s[1] = old THEN <<new>> \o Tail(s)
         ELSE <<s[1]>> \o ReplaceFirst(Tail(s), old, new)

\* getCreateTableSQL on a table the engine has.
GetCreateTableSQL(table) ==
    ReplaceFirst(ShowCreateTable(table), "CREATE TABLE",
                 "CREATE TABLE IF NOT EXISTS")

\* The DROP TABLE statement, if asked for.
DropTable(option, pos, table) ==
    IF option.isDropTable
    THEN <<W("drop", pos, <<"DROP TABLE IF EXISTS ", Backtick, table, Backtick,
                            ";\n">>)>>
    ELSE <<>>

\* writeTableStruct's comment lines.
StructHeader(pos, table) ==
    <<W("struct", pos, <<Rule>>),
      W("struct", pos, <<"-- Table structure for ", table, "\n">>),
      W("struct", pos, <<Rule>>)>>

\* writeTableStruct's statement.
StructBody(pos, table) ==
    <<W("create", pos, GetCreateTableSQL(table)), W("struct", pos, <<";">>),
      W("struct", pos, <<"\n\n">>), W("struct", pos, <<"\n\n">>)>>

\* One pass of the table loop up to the data: DROP TABLE and
\* writeTableStruct.
TableStruct ==
    /\ pc = "table"
    /\ ti <= Len(tables)
    /\ LET table == tables[ti]
           head == DropTable(o, ti, table) \o StructHeader(ti, table)
       IN /\ queries' = Append(queries, [q |-> "SHOW CREATE TABLE", t |-> table])
          /\ \E ok \in {TRUE, FALSE} :
                /\ ok => table \in Range(db.tables)
                /\ IF ok
                   THEN /\ LET b == WriteAll(Buffered, head \o StructBody(ti, table))
                           IN buf' = b.buf /\ sink' = b.sink
                        /\ IF o.isData
                           THEN pc' = "data" /\ ti' = ti
                           ELSE pc' = "table" /\ ti' = ti + 1
                        /\ UNCHANGED <<err, logged>>
                   ELSE /\ LET b == WriteAll(Buffered, head)
                           IN buf' = b.buf /\ sink' = b.sink
                        /\ logged' = logged \o <<LogError(ErrQuery), LogError(ErrQuery)>>
                        /\ Return(ErrQuery)
                        /\ ti' = ti
    /\ UNCHANGED <<opts, db, o, reported, tables, columnTypes, values, ri,
                   readErr>>

\* After the table loop: the trailer, buf.Flush() and return nil.
Finish ==
    /\ pc = "table"
    /\ ti > Len(tables)
    /\ LET b == Flush(WriteAll(Buffered, Trailer))
       IN buf' = b.buf /\ sink' = b.sink
    /\ Return("nil")
    /\ UNCHANGED <<opts, db, o, reported, tables, ti, columnTypes, values, ri,
                   logged, queries, readErr>>

\* writeTableData's comment lines.
DataHeader(pos, table) ==
    <<W("records", pos, <<Rule>>),
      W("records", pos, <<"-- Records of ", table, "\n">>),
      W("records", pos, <<Rule>>)>>

\* writeTableData up to the row loop: the comment lines, the SELECT and the
\* column metadata. The function's locals start empty on every call; ri = 0
\* says that no row is being rendered.
DataQuery ==
    /\ pc = "data"
    /\ LET b == WriteAll(Buffered, DataHeader(ti, tables[ti]))
       IN buf' = b.buf /\ sink' = b.sink
    /\ queries' = Append(queries, [q |-> "SELECT", t |-> tables[ti]])
    /\ values' = <<>>
    /\ ri' = 0
    /\ \E ok \in {TRUE, FALSE} :
          IF ok
          THEN /\ columnTypes' = db.data[tables[ti]].types
               /\ pc' = "read"
               /\ UNCHANGED <<err, logged, readErr>>
          ELSE /\ columnTypes' = <<>>
               /\ logged' = logged \o <<LogError(ErrQuery), LogError(ErrQuery)>>
               /\ readErr' = readErr \cup {ti}
               /\ Return(ErrQuery)
    /\ UNCHANGED <<opts, db, o, reported, tables, ti>>

\* One pass of "for lineRows.Next()": the next row is scanned and kept, or
\* the scan fails, or Next() returns false, at the end of the result or
\* before it on an error (lineRows.Err() is not looked at).
ReadRow ==
    /\ pc = "read"
    /\ LET rows == db.data[tables[ti]].rows
           n == Len(values)
       IN \/ /\ n < Len(rows)
             /\ values' = Append(values, rows[n + 1])
             /\ UNCHANGED <<pc, err, logged, readErr, ri>>
          \/ /\ n < Len(rows)
             /\ logged' = logged \o <<LogError(ErrScan), LogError(ErrScan)>>
             /\ readErr' = readErr \cup {ti}
             /\ Return(ErrScan)
             /\ UNCHANGED <<values, ri>>
          \/ /\ readErr' = IF n < Len(rows) THEN readErr \cup {ti} ELSE readErr
             /\ ri' = 1
             /\ pc' = "render"
             /\ UNCHANGED <<values, err, logged>>
    /\ UNCHANGED <<opts, db, o, reported, tables, ti, columnTypes, buf, sink,
                   queries>>

\* log.Println of a failed type assertion: the type name followed by the
\* source's message for "type conversion error".
LogConversion(Type) == Type \o " type conversion error"

\* One pass of "for _, row := range values", and what Dump does with the
\* value writeTableData returns when the pass leaves the function.
RenderRow ==
    /\ pc = "render"
    /\ ri <= Len(values)
    /\ LET r == RowSQL(tables[ti], columnTypes, values[ri], o.isIgnoreInsert)
       IN CASE r.st = "ok" ->
                 /\ LET b == WriteString(Buffered, W("insert", ti, r.ssql))
                    IN buf' = b.buf /\ sink' = b.sink
                 /\ ri' = ri + 1
                 /\ UNCHANGED <<pc, err, logged, ti>>
            [] r.st = "conv" ->
                 \* return err with err = nil: Dump goes on with the next table
                 /\ logged' = Append(logged, LogConversion(r.lit))
                 /\ pc' = "table"
                 /\ ti' = ti + 1
                 /\ UNCHANGED <<err, ri, buf, sink>>
            [] r.st = "unsupported" ->
                 /\ logged' = logged \o <<ErrUnsupported(r.lit),
                                          LogError(ErrUnsupported(r.lit))>>
                 /\ Return(ErrUnsupported(r.lit))
                 /\ UNCHANGED <<ri, ti, buf, sink>>
            [] r.st = "panic" ->
                 /\ pc' = "deferPanic"
                 /\ UNCHANGED <<err, logged, ri, ti, buf, sink>>
    /\ UNCHANGED <<opts, db, o, reported, tables, columnTypes, values, queries,
                   readErr>>

\* The end of writeTableData: the blank lines, return nil, and the next
\* pass of Dump's table loop.
DataEnd ==
    /\ pc = "render"
    /\ ri > Len(values)
    /\ LET b == WriteString(Buffered, W("records", ti, <<"\n\n">>))
       IN buf' = b.buf /\ sink' = b.sink
    /\ pc' = "table"
    /\ ti' = ti + 1
    /\ UNCHANGED <<opts, db, o, err, reported, tables, columnTypes, values, ri,
                   logged, queries, readErr>>

\* Mutant of Deferred: the buffer is flushed on the successful return only.
DeferredFlushOnSuccess ==
    /\ pc \in {"defer", "deferPanic"}
    /\ LET b == IF pc = "defer" /\ err = "nil" THEN Flush(Buffered) ELSE Buffered
       IN buf' = b.buf /\ sink' = b.sink
    /\ logged' = Append(logged, "[info] [dump] end")
    /\ pc' = IF pc = "defer" THEN "done" ELSE "panicked"
    /\ UNCHANGED <<opts, db, o, err, reported, tables, ti, columnTypes, values,
                   ri, queries, readErr>>

\* The deferred calls of Dump, on a return and on a panic: db.Close(),
\* buf.Flush(), then the end-of-dump log line.
Deferred ==
    /\ pc \in {"defer", "deferPanic"}
    /\ LET b == Flush(Buffered)
       IN buf' = b.buf /\ sink' = b.sink
    /\ logged' = Append(logged, "[info] [dump] end")
    /\ pc' = IF pc = "defer" THEN "done" ELSE "panicked"
    /\ UNCHANGED <<opts, db, o, err, reported, tables, ti, columnTypes, values,
                   ri, queries, readErr>>

(* ----------------------------- specification --------------------------- *)

Init ==
    /\ \/ opts \in AllOpts /\ db = PlainDB
       \/ opts \in DataOpts /\ db \in RichDBs
    /\ o = ZeroOption
    /\ pc = "start"
    /\ err = "nil"
    /\ reported = <<>>
    /\ tables = <<>>
    /\ ti = 0
    /\ columnTypes = <<>>
    /\ values = <<>>
    /\ ri = 0
    /\ buf = <<>>
    /\ sink = <<>>
    /\ logged = <<>>
    /\ queries = <<>>
    /\ readErr = {}

Next ==
    \/ DumpStart
    \/ Connect
    \/ ResolveTables
    \/ TableStruct
    \/ Finish
    \/ DataQuery
    \/ ReadRow
    \/ RenderRow
    \/ DataEnd
    \/ Deferred

Spec == Init /\ [][Next]_vars

(* --------------------------- claims: helpers --------------------------- *)

IsPrefix(a, b) == Len(a) <= Len(b) /\ SubSeq(b, 1, Len(a)) = a

\* Whether the caller passed WithAllTable().
AllTableGiven == \E i \in DOMAIN opts : opts[i].f = "WithAllTable"

IsShowCreate(q) == q.q = "SHOW CREATE TABLE"

\* The tables Dump has started to process, in order: one per SHOW CREATE
\* TABLE it issued.
Processed ==
    LET qs == SelectSeq(queries, IsShowCreate)
    IN [i \in 1..Len(qs) |-> qs[i].t]

\* The engine-reported tables that are not in the exclusion list.
ReportedNotExcluded ==
    LET Kept(t) == \A i \in DOMAIN o.ignoreTables : o.ignoreTables[i] # t
    IN SelectSeq(reported, Kept)

Returned == pc = "done"
ReturnedNil == pc = "done" /\ err = "nil"

\* The INSERT statements written for the table at position p.
Inserts(p) ==
    LET Is(w) == w.k = "insert" /\ w.pos = p
    IN SelectSeq(Stream, Is)

(* --------------------------------- C1 ---------------------------------- *)

\* C1 as stated: the inclusion list strictly dominates.
C1_Expected ==
    IF o.tables # <<>> THEN o.tables
    ELSE IF o.ignoreTables # <<>> THEN ReportedNotExcluded
    ELSE reported

\* C1 (original statement): for every combination of WithTables,
\* WithIgnoreTables and WithAllTable, the tables Dump processes are those of
\* the inclusion list if it is non-empty (whatever the exclusion list and
\* the dump-all flag), else the reported tables minus the excluded ones,
\* else all reported tables.
C1_Original ==
    /\ IsPrefix(Processed, C1_Expected)
    /\ ReturnedNil => Processed = C1_Expected

\* The working list with the dump-all flag dominating the inclusion list.
C1_ExpectedAmended ==
    IF o.tables # <<>> /\ ~AllTableGiven THEN o.tables
    ELSE IF o.ignoreTables # <<>> THEN ReportedNotExcluded
    ELSE reported

\* C1 (amended): the tables Dump processes are those of the inclusion list
\* if it is non-empty and WithAllTable was not given; otherwise (dump-all
\* given, or no inclusion list) the engine-reported tables minus the
\* excluded ones if the exclusion list is non-empty, else all reported
\* tables. Dump processes them in that order and, when it returns nil, all
\* of them.
C1_Amended ==
    /\ IsPrefix(Processed, C1_ExpectedAmended)
    /\ ti >= 1 => tables = C1_ExpectedAmended
    /\ ReturnedNil => Processed = C1_ExpectedAmended

\* A dump with an inclusion list and WithAllTable that returned nil after
\* processing the reported tables, not the listed ones.
C1_Witness ==
    /\ ReturnedNil
    /\ AllTableGiven
    /\ o.tables = <<"t1">>
    /\ Len(Processed) = 3

(* --------------------------------- C6 ---------------------------------- *)

\* No text and no query for table t.
Untouched(t) ==
    /\ \A i \in DOMAIN Stream :
          Stream[i].pos > 0 => tables[Stream[i].pos] # t
    /\ \A i \in DOMAIN queries :
          queries[i].q \in {"SHOW CREATE TABLE", "SELECT"} => queries[i].t # t

\* With an empty inclusion list nothing is emitted or queried for an
\* excluded table, and the processed tables are the reported ones that are
\* not excluded.
C6_Exclusion ==
    o.tables = <<>> =>
        /\ \A i \in DOMAIN o.ignoreTables : Untouched(o.ignoreTables[i])
        /\ IsPrefix(Processed, ReportedNotExcluded)
        /\ ReturnedNil => Processed = ReportedNotExcluded

\* The working list is the one Dump computes with an empty exclusion list.
ExclusionHasNoEffect ==
    ti >= 1 => tables = WorkingTables([o EXCEPT !.ignoreTables = <<>>], reported)

\* C6 (original statement): with an empty inclusion list and t in the
\* exclusion list, Dump emits no text and issues no SHOW CREATE TABLE or
\* SELECT for t, and processes exactly the reported tables that are not
\* excluded; the exclusion list has no effect when an inclusion list is
\* given.
C6_Original ==
    /\ C6_Exclusion
    /\ o.tables # <<>> => ExclusionHasNoEffect

\* C6 (amended): as the original, the last sentence being: the exclusion
\* list has no effect when an inclusion list is given and WithAllTable is
\* not.
C6_Amended ==
    /\ C6_Exclusion
    /\ (o.tables # <<>> /\ ~AllTableGiven) => ExclusionHasNoEffect

\* A dump-all with t1 excluded that returned nil after processing the
\* other reported tables, t1 being among the reported ones.
C6_Witness ==
    /\ ReturnedNil
    /\ o.tables = <<>>
    /\ o.ignoreTables = <<"t1">>
    /\ reported = <<"t2", "t3", "t1">>
    /\ Processed = <<"t2", "t3">>
    /\ o.isData

(* --------------------------------- C8 ---------------------------------- *)

\* The place of a kind of text within the output of one table.
KindRank(k) ==
    CASE k = "drop" -> 1
      [] k \in {"struct", "create"} -> 2
      [] k \in {"records", "insert"} -> 3
      [] OTHER -> 0

\* The place of a text in the output: the leading banner, then table by
\* table the kinds in their order, then the trailing banner.
Place(w) ==
    CASE w.k = "banner" -> 0
      [] w.k = "trailer" -> 4 * (Len(tables) + 1)
      [] OTHER -> 4 * w.pos + KindRank(w.k)

\* The table a text names, for the texts that carry the name.
NamesTable(w) ==
    CASE w.k = "drop" -> w.s[3] = tables[w.pos]
      [] w.k \in {"struct", "records"} /\ Len(w.s) = 3 -> w.s[2] = tables[w.pos]
      [] w.k = "insert" ->
            w.s[1] \in {InsertPrefix(tables[w.pos], TRUE),
                        InsertPrefix(tables[w.pos], FALSE)}
      [] OTHER -> TRUE

\* The index of name t in the list the engine holds.
EngineIndex(t) == CHOOSE i \in DOMAIN db.tables : db.tables[i] = t

\* C8: the leading banner is written first; the tables are processed one
\* after the other in the order of the working list (for a dump-all the
\* order in which the engine reports them); for each table DROP TABLE
\* precedes the structure, which precedes the INSERT statements; all output
\* of a table precedes any output of the next one; the trailing banner,
\* when written, is last.
C8_Sequential ==
    /\ Stream # <<>> => Stream[1].k = "banner"
    /\ \A i \in 1..(Len(Stream) - 1) : Place(Stream[i]) <= Place(Stream[i + 1])
    /\ \A i \in DOMAIN Stream :
          Stream[i].pos > 0 => Stream[i].pos <= ti /\ NamesTable(Stream[i])
    /\ ti >= 1 => IsPrefix(Processed, tables)
    /\ (ti >= 1 /\ o.isAllTable) =>
          \A i, j \in DOMAIN tables :
             i < j => /\ tables[i] \in Range(db.tables)
                      /\ tables[j] \in Range(db.tables)
                      /\ EngineIndex(tables[i]) < EngineIndex(tables[j])

\* A dump of three tables in the engine's order t2, t3, t1 with DROP TABLE
\* and data, after the trailing banner.
C8_Witness ==
    /\ ReturnedNil
    /\ o.isDropTable /\ o.isData
    /\ tables = <<"t2", "t3", "t1">>
    /\ Inserts(1) # <<>> /\ Inserts(3) # <<>>
    /\ Stream[Len(Stream)].k = "trailer"

(* --------------------------------- C5 ---------------------------------- *)

\* A step loses and reorders nothing: what was in the sink stays there, and
\* the texts written so far stay in write order across sink and buffer.
KeepsWrites ==
    /\ IsPrefix(sink, sink')
    /\ IsPrefix(sink \o buf, sink' \o buf')

\* C5: on every exit path of Dump after the buffered writer is created
\* (nil or an error), by the time Dump returns the sink holds exactly the
\* texts written, in write order, and nothing stays in the buffer.
C5_Flushed ==
    /\ [][KeepsWrites]_vars
    /\ [](Returned => buf = <<>>)

\* Dump returned an error after the structure of a table was written, and
\* the sink holds it.
C5_Witness ==
    /\ Returned
    /\ err # "nil"
    /\ buf = <<>>
    /\ \E i \in DOMAIN sink : sink[i].k = "create"

(* --------------------------------- C10 --------------------------------- *)

\* A complete statement for a row of n columns: the prefix, n literals
\* separated by commas, no trailing comma, and the closing ");\n".
CompleteInsert(w, table, n) ==
    /\ Len(w.s) = 2 * n + 1
    /\ w.s[1] = InsertPrefix(table, o.isIgnoreInsert)
    /\ \A k \in 1..n : w.s[2 * k] # ","
    /\ \A k \in 1..(n - 1) : w.s[2 * k + 1] = ","
    /\ w.s[Len(w.s)] = ");\n"

\* Whether the renderer fails on a cell of the row.
RowFails(types, row) ==
    \E i \in DOMAIN row : RenderCell(types[i], row[i]).st # "ok"

\* The rows before the first one the renderer fails on.
RowsBeforeFailure(types, rows) ==
    LET bad == {k \in DOMAIN rows : RowFails(types, rows[k])}
    IN IF bad = {} THEN Len(rows)
       ELSE (CHOOSE k \in bad : \A m \in bad : k <= m) - 1

\* Dump is leaving, or has left, from inside the rendering of a row: with
\* the unsupported-type error, or by a panic.
RenderAborted ==
    \/ pc \in {"defer", "done"}
       /\ err \notin {"nil", ErrOpen, ErrDSN, ErrQuery, ErrScan}
    \/ pc \in {"deferPanic", "panicked"}

\* C10: in every state the output holds only complete INSERT statements;
\* a row whose rendering fails contributes no text, and the statements of
\* the rows rendered before it stay in the output.
C10_CompleteStatements ==
    /\ \A i \in DOMAIN Stream :
          Stream[i].k = "insert" =>
             CompleteInsert(Stream[i], tables[Stream[i].pos],
                            Len(db.data[tables[Stream[i].pos]].types))
    /\ \A p \in DOMAIN tables :
          IF tables[p] \in DOMAIN db.data
          THEN /\ Len(Inserts(p)) <= Len(db.data[tables[p]].rows)
               /\ \A k \in DOMAIN Inserts(p) :
                     ~RowFails(db.data[tables[p]].types,
                               db.data[tables[p]].rows[k])
          ELSE Inserts(p) = <<>>
    /\ pc = "render" =>
          /\ Len(Inserts(ti)) = ri - 1
          /\ ri - 1 <= RowsBeforeFailure(columnTypes, values)
    /\ RenderAborted =>
          Len(Inserts(ti)) = RowsBeforeFailure(columnTypes, values)
    /\ (pc = "table" /\ ti > 1 /\ o.isData) =>
          Len(Inserts(ti - 1)) = RowsBeforeFailure(columnTypes, values)

\* Dump aborted on the second row of a table: the first row's statement is
\* in the output, nothing of the second.
C10_Witness ==
    /\ Returned
    /\ err = ErrUnsupported("GEOMETRY")
    /\ Len(values) = 2
    /\ RowFails(columnTypes, values[2])
    /\ Len(Inserts(ti)) = 1

(* ----------------------- claims: cells and failures -------------------- *)

\* What a cell's type and representation ask of the renderer: nothing, an
\* unsupported type, a representation its category does not admit, or (a
\* BOOL that is no bool) a failed unchecked assertion.
CellProblem(type, cell) ==
    LET T == NormalizeType(type)
    IN CASE cell.go = "nil" -> "none"
         [] T \notin KnownTypes -> "unsupported"
         [] T \in {"DATE", "DATETIME", "TIMESTAMP"} /\ cell.go # "time.Time" -> "conv"
         [] T \in {"TIME", "YEAR"} /\ cell.go # "[]byte" -> "conv"
         [] T \in BoolTypes /\ cell.go # "bool" -> "panic"
         [] OTHER -> "none"

\* The first cell with a problem among rows, in row-major order, as
\* <<row, column>>; <<0, 0>> if there is none.
FirstProblem(types, rows) ==
    LET bad == {rc \in (DOMAIN rows) \X (DOMAIN types) :
                   CellProblem(types[rc[2]], rows[rc[1]][rc[2]]) # "none"}
    IN IF bad = {} THEN <<0, 0>>
       ELSE CHOOSE rc \in bad :
               \A x \in bad : rc[1] < x[1] \/ (rc[1] = x[1] /\ rc[2] <= x[2])

FirstProblemKind(types, rows) ==
    LET rc == FirstProblem(types, rows)
    IN IF rc = <<0, 0>> THEN "none"
       ELSE CellProblem(types[rc[2]], rows[rc[1]][rc[2]])

UnsupportedColumns(types) ==
    {c \in DOMAIN types : NormalizeType(types[c]) \notin KnownTypes}

ConversionLogged ==
    \E i \in DOMAIN logged :
       logged[i] \in {LogConversion(T) :
                         T \in {"DATE", "DATETIME", "TIMESTAMP", "TIME", "YEAR"}}

TrailerWritten == \E i \in DOMAIN Stream : Stream[i].k = "trailer"

\* The rows of the table at position p, when the engine has it.
RowsAt(p) == db.data[tables[p]].rows
TypesAt(p) == db.data[tables[p]].types

(* --------------------------------- C2 ---------------------------------- *)

\* C2: whenever a non-null cell's representation does not match what its
\* category requires, the data dump of that table fails with a non-nil
\* error and Dump returns a non-nil error immediately: no later table is
\* processed and the trailing banner is not written.
C2_ConversionAborts ==
    (Returned /\ ConversionLogged) =>
        /\ err # "nil"
        /\ ~TrailerWritten

(* --------------------------------- C9 ---------------------------------- *)

\* C9: if reading the rows of a table fails at any point (the SELECT fails,
\* a scan fails, or the iteration ends early on an error), no INSERT
\* statement is written for that table and Dump returns a non-nil error.
C9_ReadFailureAborts ==
    /\ \A p \in readErr : Inserts(p) = <<>>
    /\ (Returned /\ readErr # {}) => err # "nil"

(* --------------------------------- C4 ---------------------------------- *)

\* C4: when Dump returns nil with data rows requested, the output holds for
\* every processed table exactly one INSERT statement per row the SELECT
\* returned, in the order fetched, all with the same verb: INSERT IGNORE
\* INTO if the ignore-duplicates option is set, INSERT INTO otherwise.
\* (Stated for the tables whose rows were read to the end.)
C4_OneInsertPerRow ==
    (ReturnedNil /\ o.isData) =>
        \A p \in DOMAIN tables :
           p \notin readErr =>
              /\ Len(Inserts(p)) = Len(RowsAt(p))
              /\ \A k \in DOMAIN Inserts(p) :
                    /\ Inserts(p)[k].s[1] = InsertPrefix(tables[p], o.isIgnoreInsert)
                    /\ Inserts(p)[k].s =
                          RowSQL(tables[p], TypesAt(p), RowsAt(p)[k],
                                 o.isIgnoreInsert).ssql

(* --------------------------------- C7 ---------------------------------- *)

DigitValue(c) == (CHOOSE d \in 1..10 : Digits[d] = c) - 1

RECURSIVE DigitsValue(_, _)
\* The number the digits of cs spell after acc, a decimal point skipped.
DigitsValue(cs, acc) ==
    IF cs = <<>> THEN acc
    ELSE IF cs[1] = "." THEN DigitsValue(Tail(cs), acc)
         ELSE DigitsValue(Tail(cs), 10 * acc + DigitValue(cs[1]))

RECURSIVE ScaleOf(_)
\* The number of digits after the decimal point of cs.
ScaleOf(cs) ==
    IF cs = <<>> THEN 0
    ELSE IF cs[1] = "." THEN Len(cs) - 1 ELSE ScaleOf(Tail(cs))

\* The number a numeric cell stands for, as <<n, sc>> for n / 10^sc.
LogicalValue(cell) ==
    IF cell.go = "[]byte"
    THEN IF cell.cs[1] = "-"
         THEN <<-DigitsValue(Tail(cell.cs), 0), ScaleOf(cell.cs)>>
         ELSE <<DigitsValue(cell.cs, 0), ScaleOf(cell.cs)>>
    ELSE <<cell.n, cell.sc>>

\* The two deliveries of the number v to a column of type T.
AsNative(T, v) == IF T \in IntegerTypes THEN Int64(v[1]) ELSE Float64(v[1], v[2])
AsBytes(v) == Bytes(EngineDecChars(v[1], v[2]))

\* C7: for Integer and Float columns, rendering a value delivered as its
\* textual byte sequence equals rendering it delivered as a native number.
C7_SameText ==
    \A r \in DOMAIN values : \A c \in DOMAIN columnTypes :
       LET T == NormalizeType(columnTypes[c])
           cell == values[r][c]
       IN (T \in IntegerTypes \cup FloatTypes
           /\ cell.go \in {"int64", "float64", "[]byte"}) =>
             RenderSwitch(T, AsBytes(LogicalValue(cell)))
                = RenderSwitch(T, AsNative(T, LogicalValue(cell)))

\* The same, for Integer columns only (the part of C7 the code satisfies).
C7_IntegerSameText ==
    \A r \in DOMAIN values : \A c \in DOMAIN columnTypes :
       LET T == NormalizeType(columnTypes[c])
           cell == values[r][c]
       IN (T \in IntegerTypes /\ cell.go \in {"int64", "[]byte"}) =>
             RenderSwitch(T, AsBytes(LogicalValue(cell)))
                = RenderSwitch(T, AsNative(T, LogicalValue(cell)))

(* --------------------------------- C3 ---------------------------------- *)

\* C3 (original statement): for every table dumped with data that has at
\* least one row and a column of an unsupported type, whatever the values
\* of that column's cells, the data dump fails with an UnsupportedType
\* error and Dump aborts returning it, and no INSERT statement is ever
\* written that carries a value for that column. (Stated for the tables
\* whose cells all have the representation their category requires: the
\* dump of such a table never gets through its rows, and no INSERT is
\* written for it.)
C3_Original ==
    /\ (pc = "render" /\ values # <<>> /\ UnsupportedColumns(columnTypes) # {}
        /\ \A r \in DOMAIN values : \A c \in DOMAIN columnTypes :
              CellProblem(columnTypes[c], values[r][c]) \in {"none", "unsupported"})
       => ri <= Len(values)
    /\ \A i \in DOMAIN Stream :
          (Stream[i].k = "insert"
           /\ \A r \in DOMAIN RowsAt(Stream[i].pos) :
              \A c \in DOMAIN TypesAt(Stream[i].pos) :
                 CellProblem(TypesAt(Stream[i].pos)[c],
                             RowsAt(Stream[i].pos)[r][c]) \in {"none", "unsupported"})
          => UnsupportedColumns(TypesAt(Stream[i].pos)) = {}

\* The type of the first cell with a problem.
FirstProblemType(types, rows) ==
    NormalizeType(types[FirstProblem(types, rows)[2]])

\* C3 (amended): a NULL cell is written as NULL whatever the column's type;
\* no INSERT statement is ever written with another literal in a column of
\* an unsupported type. When the first cell of a table's fetched rows (row
\* by row, column by column) that is not NULL and that the renderer cannot
\* render is in a column of an unsupported type, the data dump fails with
\* the UnsupportedType error and Dump aborts returning it: the statements
\* of the rows before that row are in the output, none of that row or a
\* later one, no later table is processed and no trailing banner written.
\* Dump returns an UnsupportedType error in no other case.
C3_Amended ==
    /\ \A i \in DOMAIN Stream :
          Stream[i].k = "insert" =>
             \A c \in UnsupportedColumns(TypesAt(Stream[i].pos)) :
                Stream[i].s[2 * c] = "NULL"
    /\ (ri >= 1 /\ FirstProblemKind(columnTypes, values) = "unsupported") =>
          /\ pc \in {"render", "defer", "done"}
          /\ pc = "render" => ri <= FirstProblem(columnTypes, values)[1]
          /\ pc \in {"defer", "done"} =>
                /\ err = ErrUnsupported(FirstProblemType(columnTypes, values))
                /\ Len(Inserts(ti)) = FirstProblem(columnTypes, values)[1] - 1
                /\ Len(Processed) = ti
                /\ ~TrailerWritten
    /\ (pc \in {"defer", "done"}
        /\ err \notin {"nil", ErrOpen, ErrDSN, ErrQuery, ErrScan}) =>
          /\ ri >= 1
          /\ FirstProblemKind(columnTypes, values) = "unsupported"

\* Dump returned the UnsupportedType error from the second row of a table
\* whose first row, with NULL in the unsupported column, is in the output.
C3_Witness ==
    /\ Returned
    /\ err = ErrUnsupported("GEOMETRY")
    /\ Len(Inserts(ti)) = 1
    /\ \E c \in UnsupportedColumns(columnTypes) :
          /\ values[1][c] = Nil
          /\ Inserts(ti)[1].s[2 * c] = "NULL"
          /\ values[2][c] # Nil

====
